---- MODULE Spec2Model ----
(***************************************************************************)
(* Model of the schema translation and DDL generation of table_migration:  *)
(* SchemaTranslator (src/src/core/schema_translator.py) and the handler    *)
(* generate_ddl_preview (src/src/ui/main_ui.py) that drives it.            *)
(*                                                                         *)
(* Python values are modelled as follows.  An Optional value is a tuple:   *)
(* None is << >> and a present value v is << v >>.  A str is a TLA+        *)
(* string, a list is a sequence, a tuple is a tuple, a dataclass is a      *)
(* record with the dataclass's field names.                                *)
(***************************************************************************)
EXTENDS Integers, Sequences, FiniteSets, TLC

VARIABLES
    pc,                 \* position of the running handler
    col,                \* ColumnInfo handed to _translate_column
    translated_col,     \* Optional ColumnInfo: what _translate_column returned
    current_table_info, \* st.session_state.current_table_info
    migration_config,   \* st.session_state.migration_config
    db_type,            \* source_connector.db_type
    translated_table,   \* generate_ddl_preview's local translated_table
    table_with_audit,   \* generate_ddl_preview's local table_with_audit
    target_table_name,  \* generate_ddl_preview's local target_table_name
    ddl_output,         \* st.session_state.ddl_output
    sqlproj_entries,    \* what generate_sqlproj_entries returned
    column_definition,  \* what _format_column_definition returned
    naming_input,       \* arguments of the naming operations
    naming_result,      \* what apply_naming_conventions returned
    validation_result,  \* what validate_naming_convention returned
    heap,               \* the Python objects, by reference
    table_info_ref,     \* reference held by generate_ddl_preview's table_info
    translated_table_ref, \* reference held by its translated_table
    table_with_audit_ref, \* reference held by its table_with_audit
    storage_impact,     \* what estimate_storage_impact returned
    step_results,       \* execute_migration: what each step reported
    repo_files,         \* paths of the DDL files in the working tree
    created_files,      \* execute_migration's local created_files
    branch_created,     \* whether the feature branch exists
    committed_files,    \* the files of the commit made, if any
    rolled_back,        \* the files handed to rollback_changes, if any
    sqlproj_file,       \* the ItemGroups of the .sqlproj file, if any
    update_result       \* what update_sqlproj returned, call by call

\* The variables of a column operation, of a session, of a naming operation
\* and of the object store.
columnVars == << col, translated_col, column_definition >>

sessionVars == << current_table_info, migration_config, db_type,
                  translated_table, table_with_audit, target_table_name,
                  ddl_output, sqlproj_entries >>

namingVars == << naming_input, naming_result, validation_result >>

heapVars == << heap, table_info_ref, translated_table_ref,
               table_with_audit_ref >>

storageVars == << storage_impact >>

migrationVars == << step_results, repo_files, created_files, branch_created,
                    committed_files, rolled_back >>

projectVars == << sqlproj_file, update_result >>

moreVars == << storageVars, migrationVars, projectVars >>

vars == << pc, columnVars, sessionVars, namingVars, heapVars, moreVars >>

(***************************************************************************)
(* Python's None, Optional values and truthiness.                          *)
(***************************************************************************)
None == << >>

Some(v) == << v >>

Val(o) == o[1]

\* bool(o) of an Optional[int]: None and 0 are false.
TruthyInt(o) == o # None /\ Val(o) # 0

\* bool(o) of an Optional[str]: None and "" are false.
TruthyStr(o) == o # None /\ Val(o) # ""

Min(a, b) == IF a <= b THEN a ELSE b

Max(a, b) == IF a >= b THEN a ELSE b

(***************************************************************************)
(* str.upper() and str.lower() on ASCII text, character by character.      *)
(***************************************************************************)
LowerLetters == "abcdefghijklmnopqrstuvwxyz"

UpperLetters == "ABCDEFGHIJKLMNOPQRSTUVWXYZ"

CharAt(s, i) == SubSeq(s, i, i)

\* The 1-based place of the one-character string c in letters.
IndexIn(c, letters) ==
    CHOOSE i \in 1..Len(letters) : CharAt(letters, i) = c

\* Each lower-case letter's upper-case letter, and the reverse.
UpperOf ==
    [c \in {CharAt(LowerLetters, i) : i \in 1..Len(LowerLetters)} |->
        CharAt(UpperLetters, IndexIn(c, LowerLetters))]

LowerOf ==
    [c \in {CharAt(UpperLetters, i) : i \in 1..Len(UpperLetters)} |->
        CharAt(LowerLetters, IndexIn(c, UpperLetters))]

UpperChar(c) == IF c \in DOMAIN UpperOf THEN UpperOf[c] ELSE c

LowerChar(c) == IF c \in DOMAIN LowerOf THEN LowerOf[c] ELSE c

RECURSIVE upper(_)
upper(s) ==
    IF s = "" THEN ""
    ELSE IF Len(s) = 1 THEN UpperChar(s)
    ELSE LET half == Len(s) \div 2
         IN  upper(SubSeq(s, 1, half)) \o upper(SubSeq(s, half + 1, Len(s)))

RECURSIVE lower(_)
lower(s) ==
    IF s = "" THEN ""
    ELSE IF Len(s) = 1 THEN LowerChar(s)
    ELSE LET half == Len(s) \div 2
         IN  lower(SubSeq(s, 1, half)) \o lower(SubSeq(s, half + 1, Len(s)))

(***************************************************************************)
(* ColumnInfo and TableInfo (database_connector.py).                       *)
(***************************************************************************)
ColumnInfo(column_name, data_type, nullable, max_length, precision, scale, is_primary_key, is_unique, default_value) ==
    [column_name |-> column_name, data_type |-> data_type,
     nullable |-> nullable, max_length |-> max_length,
     precision |-> precision, scale |-> scale,
     is_primary_key |-> is_primary_key, is_unique |-> is_unique,
     default_value |-> default_value]

TableInfo(table_name, schema_name, table_type, columns, primary_keys, unique_constraints, row_count) ==
    [table_name |-> table_name, schema_name |-> schema_name,
     table_type |-> table_type, columns |-> columns,
     primary_keys |-> primary_keys,
     unique_constraints |-> unique_constraints, row_count |-> row_count]

(***************************************************************************)
(* SchemaTranslator.__init__: the static type mapping.                     *)
(***************************************************************************)
oracle_to_sqlserver_mapping ==
    [k \in {"VARCHAR2", "NVARCHAR2", "CHAR", "NCHAR", "NUMBER", "FLOAT",
            "BINARY_FLOAT", "BINARY_DOUBLE", "DATE", "TIMESTAMP",
            "TIMESTAMP WITH TIME ZONE", "TIMESTAMP WITH LOCAL TIME ZONE",
            "CLOB", "NCLOB", "BLOB", "RAW", "LONG RAW", "ROWID", "UROWID",
            "XMLTYPE", "BFILE", "LONG"} |->
        CASE k = "VARCHAR2" -> "NVARCHAR"
          [] k = "NVARCHAR2" -> "NVARCHAR"
          [] k = "CHAR" -> "NCHAR"
          [] k = "NCHAR" -> "NCHAR"
          [] k = "NUMBER" -> "DECIMAL"
          [] k = "FLOAT" -> "FLOAT"
          [] k = "BINARY_FLOAT" -> "REAL"
          [] k = "BINARY_DOUBLE" -> "FLOAT"
          [] k = "DATE" -> "DATETIME2"
          [] k = "TIMESTAMP" -> "DATETIME2"
          [] k = "TIMESTAMP WITH TIME ZONE" -> "DATETIMEOFFSET"
          [] k = "TIMESTAMP WITH LOCAL TIME ZONE" -> "DATETIME2"
          [] k = "CLOB" -> "NVARCHAR(MAX)"
          [] k = "NCLOB" -> "NVARCHAR(MAX)"
          [] k = "BLOB" -> "VARBINARY(MAX)"
          [] k = "RAW" -> "VARBINARY"
          [] k = "LONG RAW" -> "VARBINARY(MAX)"
          [] k = "ROWID" -> "UNIQUEIDENTIFIER"
          [] k = "UROWID" -> "UNIQUEIDENTIFIER"
          [] k = "XMLTYPE" -> "XML"
          [] k = "BFILE" -> "NVARCHAR(MAX)"
          [] k = "LONG" -> "NVARCHAR(MAX)"]

number_default_mapping == "BIGINT"

\* dict.get(key, default) on the static mapping.
mapping_get(key, default) ==
    IF key \in DOMAIN oracle_to_sqlserver_mapping
    THEN oracle_to_sqlserver_mapping[key]
    ELSE default

(***************************************************************************)
(* SchemaTranslator._translate_column.                                     *)
(***************************************************************************)
\* Mutant of number_mapping: the DECIMAL branch discards precision and scale
\* as the integer branch does.
number_mapping_decimal_discards(c) ==
    IF c.precision = None /\ c.scale = None
    THEN [new_type |-> number_default_mapping,
          new_precision |-> None, new_scale |-> None]
    ELSE IF c.scale = None \/ Val(c.scale) = 0
    THEN [new_type |-> IF TruthyInt(c.precision) /\ Val(c.precision) <= 9
                       THEN "INT" ELSE "BIGINT",
          new_precision |-> None, new_scale |-> None]
    ELSE [new_type |-> "DECIMAL", new_precision |-> None, new_scale |-> None]

\* Mutant of number_mapping: a NUMBER without precision and scale takes the
\* static mapping's target type.
number_mapping_static(c) ==
    IF c.precision = None /\ c.scale = None
    THEN [new_type |-> oracle_to_sqlserver_mapping["NUMBER"],
          new_precision |-> None, new_scale |-> None]
    ELSE IF c.scale = None \/ Val(c.scale) = 0
    THEN [new_type |-> IF TruthyInt(c.precision) /\ Val(c.precision) <= 9
                       THEN "INT" ELSE "BIGINT",
          new_precision |-> None, new_scale |-> None]
    ELSE [new_type |-> "DECIMAL",
          new_precision |-> c.precision, new_scale |-> c.scale]

\* The NUMBER branch: target type, precision and scale of a NUMBER column.
number_mapping(c) ==
    IF c.precision = None /\ c.scale = None
    THEN [new_type |-> number_default_mapping,
          new_precision |-> None, new_scale |-> None]
    ELSE IF c.scale = None \/ Val(c.scale) = 0
    THEN [new_type |-> IF TruthyInt(c.precision) /\ Val(c.precision) <= 9
                       THEN "INT" ELSE "BIGINT",
          new_precision |-> None, new_scale |-> None]
    ELSE [new_type |-> "DECIMAL",
          new_precision |-> c.precision, new_scale |-> c.scale]

\* Mutant of table_mapping: an unmapped type falls back to NVARCHAR.
table_mapping_fallback_nvarchar(original_type, c) ==
    [new_type |-> mapping_get(original_type, "NVARCHAR"),
     new_precision |-> c.precision, new_scale |-> c.scale]

\* The branch of every other type: the static mapping, else the type itself.
table_mapping(original_type, c) ==
    [new_type |-> mapping_get(original_type, original_type),
     new_precision |-> c.precision, new_scale |-> c.scale]

\* Target type, precision and scale of a column.
type_mapping(c) ==
    LET original_type == upper(c.data_type)
    IN  IF original_type = "NUMBER"
        THEN number_mapping(c)
        ELSE table_mapping(original_type, c)

\* The length a missing max_length is replaced by, for a string target type.
default_length(new_type, max_length) ==
    IF max_length = None
    THEN IF new_type = "NVARCHAR" THEN Some(255)
         ELSE IF new_type = "NCHAR" THEN Some(1)
         ELSE max_length
    ELSE max_length

\* The byte length of a Unicode column as a character length.
unicode_length(new_length) ==
    Some(Max(1, Min(Val(new_length) \div 4, 4000)))

\* Mutant of varbinary_length: the byte length is divided as a Unicode
\* length is.
varbinary_length_rescaled(new_length) ==
    Some(Min(Val(new_length) \div 4, 8000))

\* The length of a VARBINARY column.
varbinary_length(new_length) ==
    Some(Min(Val(new_length), 8000))

\* max_length of the translated column.
length_mapping(new_type, max_length) ==
    IF new_type \in {"NVARCHAR", "NCHAR", "VARBINARY"}
    THEN LET new_length == default_length(new_type, max_length)
         IN  IF new_type \in {"NVARCHAR", "NCHAR"} /\ TruthyInt(new_length)
             THEN unicode_length(new_length)
             ELSE IF new_type = "VARBINARY" /\ TruthyInt(new_length)
             THEN varbinary_length(new_length)
             ELSE new_length
    ELSE max_length

\* Mutant of compares_precision: the comparison is made whether or not
\* there is a precision.
compares_precision_unguarded(c) ==
    /\ upper(c.data_type) = "NUMBER"
    /\ ~(c.precision = None /\ c.scale = None)
    /\ (c.scale = None \/ Val(c.scale) = 0)

\* Whether col.precision <= 9 is evaluated: in the NUMBER(n) and NUMBER(n,0)
\* branch, and only when `col.precision and` lets the right operand run.
compares_precision(c) ==
    /\ upper(c.data_type) = "NUMBER"
    /\ ~(c.precision = None /\ c.scale = None)
    /\ (c.scale = None \/ Val(c.scale) = 0)
    /\ TruthyInt(c.precision)

\* Whether new_length // 4 and max(1, min(new_length, 4000)) are evaluated.
rescales_length(new_type, new_length) ==
    new_type \in {"NVARCHAR", "NCHAR"} /\ TruthyInt(new_length)

\* Whether min(new_length, 8000) is evaluated.
caps_length(new_type, new_length) ==
    /\ ~rescales_length(new_type, new_length)
    /\ new_type = "VARBINARY" /\ TruthyInt(new_length)

\* Whether _translate_column raises TypeError: <=, // or min is evaluated
\* with None for precision or length.
raises_type_error(c) ==
    \/ compares_precision(c) /\ c.precision = None
    \/ LET new_type == type_mapping(c).new_type
           new_length == default_length(new_type, c.max_length)
       IN  /\ new_type \in {"NVARCHAR", "NCHAR", "VARBINARY"}
           /\ new_length = None
           /\ \/ rescales_length(new_type, new_length)
              \/ caps_length(new_type, new_length)

_translate_column(c) ==
    LET m == type_mapping(c)
    IN  ColumnInfo(c.column_name, m.new_type, c.nullable,
                   length_mapping(m.new_type, c.max_length),
                   m.new_precision, m.new_scale,
                   c.is_primary_key, c.is_unique, c.default_value)

(***************************************************************************)
(* Inputs of _translate_column.                                            *)
(***************************************************************************)
MaxSmallLength == 4

LengthMargin == 1

MaxPrecision == 10

MaxScale == 2

\* Type names outside the static mapping, and mapped ones in other letter case.
OtherTypes ==
    {"JSON", "json", "number", "Varchar2", "raw", "NVARCHAR", "VARBINARY",
     "nchar"}

SourceTypes == DOMAIN oracle_to_sqlserver_mapping \cup OtherTypes

LengthValues ==
    (-MaxSmallLength .. MaxSmallLength) \cup {255, 400, 20000}
        \cup ((4000 - LengthMargin) .. (4000 + LengthMargin))
        \cup ((16000 - LengthMargin) .. (16000 + LengthMargin))
        \cup ((8000 - LengthMargin) .. (8000 + LengthMargin))

Optional(S) == {None} \cup {Some(v) : v \in S}

ColumnInputs ==
    {ColumnInfo("C", t, n, l, p, s, FALSE, FALSE, None) :
        t \in SourceTypes, n \in BOOLEAN, l \in Optional(LengthValues),
        p \in Optional(-1 .. MaxPrecision), s \in Optional(-1 .. MaxScale)}

(***************************************************************************)
(* _translate_column applied to one column.                                *)
(***************************************************************************)
\* No session is open.
NoSession ==
    /\ current_table_info = None
    /\ migration_config = None
    /\ db_type = ""
    /\ translated_table = None
    /\ table_with_audit = None
    /\ target_table_name = None
    /\ ddl_output = None
    /\ sqlproj_entries = None

\* No storage estimate has been made.
NoStorage == storage_impact = None

\* No migration is under way.
NoMigration ==
    /\ step_results = << >>
    /\ repo_files = {}
    /\ created_files = None
    /\ branch_created = FALSE
    /\ committed_files = None
    /\ rolled_back = None

\* No project file is at hand.
NoProject ==
    /\ sqlproj_file = None
    /\ update_result = << >>

\* No object is stored.
NoHeap ==
    /\ heap = << >>
    /\ table_info_ref = 0
    /\ translated_table_ref = 0
    /\ table_with_audit_ref = 0

\* No naming operation is under way.
NoNaming ==
    /\ naming_input = None
    /\ naming_result = None
    /\ validation_result = None

\* No column operation is under way.
NoColumn ==
    /\ col = None
    /\ translated_col = None
    /\ column_definition = None

InitColumn ==
    /\ NoStorage
    /\ NoMigration
    /\ NoProject
    /\ NoHeap
    /\ pc = "column"
    /\ col \in ColumnInputs
    /\ translated_col = None
    /\ column_definition = None
    /\ NoSession
    /\ NoNaming

translate_column ==
    /\ pc = "column"
    /\ IF raises_type_error(col)
       THEN /\ translated_col' = None
            /\ pc' = "column_raised"
       ELSE /\ translated_col' = Some(_translate_column(col))
            /\ pc' = "column_done"
    /\ UNCHANGED << col, column_definition, sessionVars, namingVars,
                    heapVars,
                    moreVars >>

\* _translate_column applied to the column it returned.
retranslate_column ==
    /\ pc = "column_done"
    /\ IF raises_type_error(Val(translated_col))
       THEN /\ translated_col' = None
            /\ pc' = "column_raised"
       ELSE /\ translated_col' = Some(_translate_column(Val(translated_col)))
            /\ pc' = "column_retranslated"
    /\ UNCHANGED << col, column_definition, sessionVars, namingVars,
                    heapVars, moreVars >>

(***************************************************************************)
(* SchemaTranslator.translate_oracle_to_sqlserver, add_audit_columns and   *)
(* apply_naming_conventions.                                               *)
(***************************************************************************)
translate_columns(columns) ==
    [i \in 1..Len(columns) |-> _translate_column(columns[i])]

\* Mutant of translate_oracle_to_sqlserver: row_count is not passed on and
\* takes the dataclass's default.
translate_oracle_to_sqlserver_no_row_count(table_info) ==
    TableInfo(table_info.table_name, table_info.schema_name,
              table_info.table_type, translate_columns(table_info.columns),
              table_info.primary_keys, table_info.unique_constraints, None)

translate_oracle_to_sqlserver(table_info) ==
    TableInfo(table_info.table_name, table_info.schema_name,
              table_info.table_type, translate_columns(table_info.columns),
              table_info.primary_keys, table_info.unique_constraints,
              table_info.row_count)

audit_column ==
    ColumnInfo("record_insert_datetime", "DATETIME2", FALSE, None, None, None,
               FALSE, FALSE, Some("GETDATE()"))

\* Mutant of add_audit_columns: the audit column is put first.
add_audit_columns_first(table_info) ==
    TableInfo(table_info.table_name, table_info.schema_name,
              table_info.table_type,
              << audit_column >> \o table_info.columns,
              table_info.primary_keys, table_info.unique_constraints,
              table_info.row_count)

add_audit_columns(table_info) ==
    TableInfo(table_info.table_name, table_info.schema_name,
              table_info.table_type,
              table_info.columns \o << audit_column >>,
              table_info.primary_keys, table_info.unique_constraints,
              table_info.row_count)

Digits == "0123456789"

CharsOf(letters) == {CharAt(letters, i) : i \in 1..Len(letters)}

\* The characters the pattern [^a-zA-Z0-9_] does not match.
WordChars ==
    CharsOf(LowerLetters) \cup CharsOf(UpperLetters) \cup CharsOf(Digits)
        \cup {"_"}

\* re.sub(r'[^a-zA-Z0-9_]', '_', s)
RECURSIVE clean(_)
clean(s) ==
    IF s = "" THEN ""
    ELSE IF Len(s) = 1 THEN (IF s \in WordChars THEN s ELSE "_")
    ELSE LET half == Len(s) \div 2
         IN  clean(SubSeq(s, 1, half)) \o clean(SubSeq(s, half + 1, Len(s)))

\* Mutant of apply_naming_conventions: the two parts are not separated.
apply_naming_conventions_no_separator(table_name, source_prefix) ==
    clean(lower(source_prefix)) \o clean(lower(table_name))

\* Mutant of apply_naming_conventions: the table name comes first.
apply_naming_conventions_table_first(table_name, source_prefix) ==
    clean(lower(table_name)) \o "_" \o clean(lower(source_prefix))

\* Mutant of apply_naming_conventions: the names are not lower-cased.
apply_naming_conventions_no_lower(table_name, source_prefix) ==
    clean(source_prefix) \o "_" \o clean(table_name)

apply_naming_conventions(table_name, source_prefix) ==
    LET clean_table_name == clean(lower(table_name))
        clean_prefix == clean(lower(source_prefix))
    IN  clean_prefix \o "_" \o clean_table_name

(***************************************************************************)
(* SchemaTranslator.validate_naming_convention.                            *)
(***************************************************************************)
reserved_words ==
    {"SELECT", "FROM", "WHERE", "INSERT", "UPDATE", "DELETE", "CREATE", "DROP",
     "ALTER", "TABLE", "VIEW", "INDEX", "DATABASE", "SCHEMA", "USER", "ORDER",
     "GROUP", "HAVING", "UNION", "JOIN", "INNER", "LEFT", "RIGHT", "FULL",
     "OUTER", "ON", "AS", "AND", "OR", "NOT", "IN", "EXISTS", "LIKE", "BETWEEN"}

\* The length of the longest prefix of text made of characters of chars.
span(text, chars) ==
    IF \A k \in 1..Len(text) : CharAt(text, k) \in chars THEN Len(text)
    ELSE (CHOOSE k \in 1..Len(text) :
              /\ CharAt(text, k) \notin chars
              /\ \A j \in 1..(k - 1) : CharAt(text, j) \in chars) - 1

\* re.match(r'^[a-zA-Z_][a-zA-Z0-9_]*$', text): one letter or underscore,
\* then as many word characters as there are; $ matches at the end of the
\* text and before a newline that ends the text.
re_match_identifier(text) ==
    /\ text # ""
    /\ CharAt(text, 1) \in (WordChars \ CharsOf(Digits))
    /\ LET rest == SubSeq(text, 2 + span(SubSeq(text, 2, Len(text)),
                                       WordChars), Len(text))
       IN  rest = "" \/ rest = "\n"

\* Mutant of validate_naming_convention: the reserved words are compared in
\* the letter case given.
validate_naming_convention_case_sensitive(table_name) ==
    IF table_name = ""
    THEN << FALSE, "Table name cannot be empty" >>
    ELSE IF Len(table_name) > 128
    THEN << FALSE, "Table name cannot exceed 128 characters" >>
    ELSE IF ~re_match_identifier(table_name)
    THEN << FALSE, "Table name must start with letter or underscore and "
                       \o "contain only letters, numbers, and underscores" >>
    ELSE IF table_name \in reserved_words
    THEN << FALSE, "'" \o table_name \o "' is a reserved word and cannot be "
                       \o "used as a table name" >>
    ELSE << TRUE, "Valid table name" >>

validate_naming_convention(table_name) ==
    IF table_name = ""
    THEN << FALSE, "Table name cannot be empty" >>
    ELSE IF Len(table_name) > 128
    THEN << FALSE, "Table name cannot exceed 128 characters" >>
    ELSE IF ~re_match_identifier(table_name)
    THEN << FALSE, "Table name must start with letter or underscore and "
                       \o "contain only letters, numbers, and underscores" >>
    ELSE IF upper(table_name) \in reserved_words
    THEN << FALSE, "'" \o table_name \o "' is a reserved word and cannot be "
                       \o "used as a table name" >>
    ELSE << TRUE, "Valid table name" >>

(***************************************************************************)
(* The naming operations applied to one table name and prefix.             *)
(***************************************************************************)
MaxNameLength == 2

NameAlphabet == {"a", "Z", "7", "_", "$", " "}

\* text repeated n times.
RECURSIVE Repeat(_, _)
Repeat(text, n) ==
    IF n = 0 THEN ""
    ELSE IF n = 1 THEN text
    ELSE Repeat(text, n \div 2) \o Repeat(text, n - n \div 2)

\* Every text of exactly n characters of NameAlphabet.
RECURSIVE TextsOfLength(_)
TextsOfLength(n) ==
    IF n = 0 THEN {""}
    ELSE {c \o t : c \in NameAlphabet, t \in TextsOfLength(n - 1)}

NameInputs ==
    UNION {TextsOfLength(n) : n \in 0..MaxNameLength}
        \cup {"TABLE", "table", "Table", "Select", "on", "tables",
              "customer_orders", "Customer Orders", "9lives", "EMP$1",
              "name\n", "TABLE\n", "two\nlines",
              Repeat("a", 124), Repeat("a", 125),
              Repeat("a", 128), Repeat("a", 129), "T" \o Repeat("_9", 64)}

PrefixInputs == {"src", "Stg-1", "", "9x", "TABLE", "_in"}

InitNaming ==
    /\ NoStorage
    /\ NoMigration
    /\ NoProject
    /\ NoHeap
    /\ pc = "naming"
    /\ naming_input \in [table_name : NameInputs, source_prefix : PrefixInputs]
    /\ naming_result = None
    /\ validation_result = None
    /\ NoColumn
    /\ NoSession

apply_naming ==
    /\ pc = "naming"
    /\ naming_result' =
           Some(apply_naming_conventions(naming_input.table_name,
                                         naming_input.source_prefix))
    /\ pc' = "named"
    /\ UNCHANGED << naming_input, validation_result, columnVars, sessionVars,
                    heapVars,
                    moreVars >>

validate_name ==
    /\ pc = "naming"
    /\ validation_result' =
           Some(validate_naming_convention(naming_input.table_name))
    /\ pc' = "validated"
    /\ UNCHANGED << naming_input, naming_result, columnVars, sessionVars,
                    heapVars,
                    moreVars >>

\* validate_naming_convention applied to the name apply_naming_conventions
\* returned.
validate_result ==
    /\ pc = "named"
    /\ validation_result' =
           Some(validate_naming_convention(Val(naming_result)))
    /\ pc' = "named_validated"
    /\ UNCHANGED << naming_input, naming_result, columnVars, sessionVars,
                    heapVars, moreVars >>

NextNaming == apply_naming \/ validate_name \/ validate_result

SpecNaming == InitNaming /\ [][NextNaming]_vars

(***************************************************************************)
(* DDL text: _format_column_definition, _generate_table_ddl,               *)
(* _generate_view_ddl and generate_ddl.                                    *)
(***************************************************************************)
\* sep.join(parts)
RECURSIVE Join(_, _)
Join(parts, sep) ==
    IF Len(parts) = 0 THEN ""
    ELSE IF Len(parts) = 1 THEN parts[1]
    ELSE parts[1] \o sep \o Join(Tail(parts), sep)

\* The data type of a column definition, with its length or precision.
format_data_type(c) ==
    IF c.data_type \in {"NVARCHAR", "NCHAR", "VARBINARY"}
    THEN IF TruthyInt(c.max_length)
         THEN IF Val(c.max_length) > 4000
              THEN c.data_type \o "(MAX)"
              ELSE c.data_type \o "(" \o ToString(Val(c.max_length)) \o ")"
         ELSE c.data_type \o "(255)"
    ELSE IF c.data_type = "DECIMAL" /\ TruthyInt(c.precision)
    THEN IF TruthyInt(c.scale)
         THEN c.data_type \o "(" \o ToString(Val(c.precision)) \o ","
                  \o ToString(Val(c.scale)) \o ")"
         ELSE c.data_type \o "(" \o ToString(Val(c.precision)) \o ")"
    ELSE c.data_type

\* The NOT NULL part of a column definition.
format_nullable(c) == IF ~c.nullable THEN << "NOT NULL" >> ELSE << >>

\* Mutant of format_default: every default gets the named form.
format_default_named(c) ==
    IF TruthyStr(c.default_value)
    THEN << "CONSTRAINT [DF_" \o c.column_name \o "] DEFAULT ("
                \o Val(c.default_value) \o ")" >>
    ELSE << >>

\* The DEFAULT part of a column definition.
format_default(c) ==
    IF TruthyStr(c.default_value)
    THEN IF c.column_name = "record_insert_datetime"
         THEN << "CONSTRAINT [DF_" \o c.column_name \o "] DEFAULT ("
                     \o Val(c.default_value) \o ")" >>
         ELSE << "DEFAULT " \o Val(c.default_value) >>
    ELSE << >>

_format_column_definition(c) ==
    Join(<< "[" \o c.column_name \o "]", format_data_type(c) >>
             \o format_nullable(c) \o format_default(c), " ")

\* _format_column_definition applied to the column.
format_column ==
    /\ pc = "column"
    /\ column_definition' = Some(_format_column_definition(col))
    /\ pc' = "column_formatted"
    /\ UNCHANGED << col, translated_col, sessionVars, namingVars, heapVars,
                    moreVars >>

NextColumn == translate_column \/ retranslate_column \/ format_column

SpecColumn == InitColumn /\ [][NextColumn]_vars

(***************************************************************************)
(* _format_column_definition applied to one column of a target table:      *)
(* target types, names and default expressions.                            *)
(***************************************************************************)
FormatInputs ==
    {ColumnInfo(name, t, n, l, p, s, FALSE, FALSE, d) :
        name \in {"C", "record_insert_datetime"},
        t \in {"DECIMAL", "NVARCHAR", "INT", "DATETIME2"},
        n \in BOOLEAN,
        l \in {None, Some(50)},
        p \in {None, Some(0), Some(10), Some(18)},
        s \in {None, Some(0), Some(2)},
        d \in {None, Some(""), Some("0"), Some("GETDATE()")}}

InitFormat ==
    /\ NoStorage
    /\ NoMigration
    /\ NoProject
    /\ NoHeap
    /\ pc = "column"
    /\ col \in FormatInputs
    /\ translated_col = None
    /\ column_definition = None
    /\ NoSession
    /\ NoNaming

NextFormat == format_column

SpecFormat == InitFormat /\ [][NextFormat]_vars

\* Mutant of primary_key_constraint: only the primary-key names that match a
\* column are emitted.
primary_key_constraint_known_columns(table_info, target_table_name_) ==
    LET known == SelectSeq(table_info.primary_keys,
                           LAMBDA pk : \E i \in 1..Len(table_info.columns) :
                               table_info.columns[i].column_name = pk)
    IN  IF Len(known) > 0
        THEN << ",\n    CONSTRAINT [PK_" \o target_table_name_
                    \o "] PRIMARY KEY ("
                    \o Join([i \in 1..Len(known) |-> "[" \o known[i] \o "]"],
                            ", ") \o ")" >>
        ELSE << >>

\* The PRIMARY KEY constraint of a table, or nothing.
primary_key_constraint(table_info, target_table_name_) ==
    IF Len(table_info.primary_keys) > 0
    THEN LET pk_columns ==
                 Join([i \in 1..Len(table_info.primary_keys) |->
                          "[" \o table_info.primary_keys[i] \o "]"], ", ")
             constraint_name == "PK_" \o target_table_name_
         IN  << ",\n    CONSTRAINT [" \o constraint_name
                    \o "] PRIMARY KEY (" \o pk_columns \o ")" >>
    ELSE << >>

_generate_table_ddl(table_info, target_schema, target_table_name_) ==
    LET column_definitions ==
            [i \in 1..Len(table_info.columns) |->
                "    " \o _format_column_definition(table_info.columns[i])]
    IN  Join(<< "CREATE TABLE [" \o target_schema \o "].["
                    \o target_table_name_ \o "] (",
                Join(column_definitions, ",\n") >>
                 \o primary_key_constraint(table_info, target_table_name_)
                 \o << "\n);" >>, "")

\* The columns a view selects: all but those named as the audit column.
RECURSIVE view_column_list(_)
view_column_list(columns) ==
    IF Len(columns) = 0 THEN << >>
    ELSE (IF Head(columns).column_name # "record_insert_datetime"
          THEN << "    [" \o Head(columns).column_name \o "]" >>
          ELSE << >>) \o view_column_list(Tail(columns))

_generate_view_ddl(target_schema, target_table_name_, view_name, columns) ==
    Join(<< "CREATE VIEW [" \o target_schema \o "].[" \o view_name \o "] AS",
            "SELECT",
            Join(view_column_list(columns), ",\n"),
            "FROM [" \o target_schema \o "].[" \o target_table_name_ \o "];" >>,
         "\n")

DDLOutput(table_ddl, view_ddl, target_table_name_, target_view_name, files_to_create) ==
    [table_ddl |-> table_ddl, view_ddl |-> view_ddl,
     target_table_name |-> target_table_name_,
     target_view_name |-> target_view_name,
     files_to_create |-> files_to_create]

\* Mutant of generate_ddl: the view file is listed before the table file.
generate_ddl_view_file_first(table_info, target_schema, target_table_name_, create_view) ==
    LET table_ddl ==
            _generate_table_ddl(table_info, target_schema, target_table_name_)
        target_view_name ==
            IF create_view
            THEN Some(table_info.schema_name \o "_" \o table_info.table_name)
            ELSE None
        view_ddl ==
            IF create_view
            THEN Some(_generate_view_ddl(target_schema, target_table_name_,
                                         Val(target_view_name),
                                         table_info.columns))
            ELSE None
        table_file_path ==
            target_schema \o "/Tables/" \o target_table_name_ \o ".sql"
        view_files ==
            IF TruthyStr(view_ddl)
            THEN << << target_schema \o "/Views/" \o Val(target_view_name)
                           \o ".sql", Val(view_ddl) >> >>
            ELSE << >>
    IN  DDLOutput(table_ddl, view_ddl, target_table_name_, target_view_name,
                  view_files \o << << table_file_path, table_ddl >> >>)

generate_ddl(table_info, target_schema, target_table_name_, create_view) ==
    LET table_ddl ==
            _generate_table_ddl(table_info, target_schema, target_table_name_)
        target_view_name ==
            IF create_view
            THEN Some(table_info.schema_name \o "_" \o table_info.table_name)
            ELSE None
        view_ddl ==
            IF create_view
            THEN Some(_generate_view_ddl(target_schema, target_table_name_,
                                         Val(target_view_name),
                                         table_info.columns))
            ELSE None
        table_file_path ==
            target_schema \o "/Tables/" \o target_table_name_ \o ".sql"
        view_files ==
            IF TruthyStr(view_ddl)
            THEN << << target_schema \o "/Views/" \o Val(target_view_name)
                           \o ".sql", Val(view_ddl) >> >>
            ELSE << >>
    IN  DDLOutput(table_ddl, view_ddl, target_table_name_, target_view_name,
                  << << table_file_path, table_ddl >> >> \o view_files)

(***************************************************************************)
(* SchemaTranslator.generate_sqlproj_entries.                              *)
(***************************************************************************)
\* text.replace(old, new) for a one-character old.
RECURSIVE replace_char(_, _, _)
replace_char(text, old, new) ==
    IF text = "" THEN ""
    ELSE (IF CharAt(text, 1) = old THEN new ELSE CharAt(text, 1))
             \o replace_char(SubSeq(text, 2, Len(text)), old, new)

\* sub in text
str_in(sub, text) ==
    \E i \in 1..(Len(text) - Len(sub) + 1) :
        SubSeq(text, i, i + Len(sub) - 1) = sub

build_include(clean_path) == "    <Build Include=\"" \o clean_path \o "\" />"

\* Mutant of generate_sqlproj_entries: only table files get an entry.
RECURSIVE generate_sqlproj_entries_tables_only(_)
generate_sqlproj_entries_tables_only(files_to_create) ==
    IF Len(files_to_create) = 0 THEN << >>
    ELSE LET file_path == Head(files_to_create)[1]
             clean_path == replace_char(file_path, "/", "\\")
         IN  (IF str_in("Tables", file_path)
              THEN << build_include(clean_path) >>
              ELSE << >>)
                 \o generate_sqlproj_entries_tables_only(Tail(files_to_create))

RECURSIVE generate_sqlproj_entries(_)
generate_sqlproj_entries(files_to_create) ==
    IF Len(files_to_create) = 0 THEN << >>
    ELSE LET file_path == Head(files_to_create)[1]
             clean_path == replace_char(file_path, "/", "\\")
         IN  (IF str_in("Tables", file_path)
              THEN << build_include(clean_path) >>
              ELSE IF str_in("Views", file_path)
              THEN << build_include(clean_path) >>
              ELSE << >>)
                 \o generate_sqlproj_entries(Tail(files_to_create))

(***************************************************************************)
(* The session generate_ddl_preview runs in: a table description as        *)
(* DatabaseConnector.get_table_schema builds it, and a configuration.      *)
(***************************************************************************)
MaxColumns == 2

\* Column rows as read from the catalog (is_primary_key is marked later).
ColumnRows ==
    {ColumnInfo("ID", "NUMBER", n, Some(22), Some(9), None,
                FALSE, FALSE, None) : n \in BOOLEAN}
    \cup
    {ColumnInfo("NAME", "VARCHAR2", FALSE, Some(400), None, None,
                FALSE, FALSE, None),
     ColumnInfo("AMOUNT", "NUMBER", TRUE, Some(22), Some(10), Some(2),
                FALSE, FALSE, Some("0")),
     ColumnInfo("CODE", "CHAR", FALSE, None, None, None,
                FALSE, TRUE, Some("'A'")),
     ColumnInfo("NOTES", "CLOB", TRUE, Some(4000), None, None,
                FALSE, FALSE, None),
     ColumnInfo("record_insert_datetime", "DATE", TRUE, Some(7), None, None,
                FALSE, FALSE, Some("SYSDATE"))}

SeqsUpTo(S, n) == UNION {[1..k -> S] : k \in 0..n}

TableNames == {"T", "Orders", "EMP$1"}

PrimaryKeyLists == {<< >>, << "ID" >>, << "ID", "NAME" >>}

\* get_table_schema: "Mark primary key columns".
mark_primary_keys(columns, primary_keys) ==
    [i \in 1..Len(columns) |->
        IF \E k \in 1..Len(primary_keys) :
               primary_keys[k] = columns[i].column_name
        THEN [columns[i] EXCEPT !.is_primary_key = TRUE]
        ELSE columns[i]]

TableInputs ==
    {TableInfo(name, "HR", "TABLE", mark_primary_keys(columns, keys), keys,
               << >>, rows) :
        name \in TableNames, columns \in SeqsUpTo(ColumnRows, MaxColumns),
        keys \in PrimaryKeyLists, rows \in {None, Some(1000)}}

ConfigInputs ==
    [source_prefix : {"src", "Stg-1"}, target_schema : {"bronze_schema"},
     create_view : BOOLEAN]

Init ==
    /\ NoStorage
    /\ NoMigration
    /\ NoProject
    /\ NoHeap
    /\ pc = "selected"
    /\ NoColumn
    /\ NoNaming
    /\ sqlproj_entries = None
    /\ current_table_info \in TableInputs
    /\ migration_config \in ConfigInputs
    /\ db_type \in {"oracle", "sqlserver"}
    /\ translated_table = None
    /\ table_with_audit = None
    /\ target_table_name = None
    /\ ddl_output = None

(***************************************************************************)
(* generate_ddl_preview (main_ui.py).                                      *)
(***************************************************************************)
generate_ddl_preview ==
    /\ pc = "selected"
    /\ LET table_info == current_table_info
           config == migration_config
           translated ==
               IF db_type = "oracle"
               THEN translate_oracle_to_sqlserver(table_info)
               ELSE table_info
           with_audit == add_audit_columns(translated)
           name == apply_naming_conventions(table_info.table_name,
                                            config.source_prefix)
       IN  /\ translated_table' = translated
           /\ table_with_audit' = with_audit
           /\ target_table_name' = name
           /\ ddl_output' = generate_ddl(with_audit, config.target_schema,
                                         name, config.create_view)
    /\ pc' = "previewed"
    /\ UNCHANGED << current_table_info, migration_config, db_type,
                    sqlproj_entries, columnVars, namingVars,
                    heapVars,
                    moreVars >>

\* execute_migration, step 4: the project entries of the previewed files.
project_entries ==
    /\ pc = "previewed"
    /\ sqlproj_entries' = generate_sqlproj_entries(ddl_output.files_to_create)
    /\ pc' = "entries"
    /\ UNCHANGED << current_table_info, migration_config, db_type,
                    translated_table, table_with_audit, target_table_name,
                    ddl_output, columnVars, namingVars,
                    heapVars,
                    moreVars >>

Next == generate_ddl_preview \/ project_entries

Spec == Init /\ [][Next]_vars

(***************************************************************************)
(* The calls of generate_ddl_preview on Python objects.  heap[ref] is the  *)
(* object a reference denotes: a ColumnInfo, a list, or a TableInfo whose  *)
(* columns, primary_keys and unique_constraints are references to lists.   *)
(* A call returns the heap it leaves and the reference or value it         *)
(* returns.                                                                *)
(***************************************************************************)

\* The objects of a table description as get_table_schema builds it: its
\* ColumnInfo objects, its three lists and the TableInfo.
store_table(table_info) ==
    LET n == Len(table_info.columns)
    IN  table_info.columns
            \o << [i \in 1..n |-> i], table_info.primary_keys,
                  table_info.unique_constraints >>
            \o << TableInfo(table_info.table_name, table_info.schema_name,
                            table_info.table_type, n + 1, n + 2, n + 3,
                            table_info.row_count) >>

\* The table description a reference denotes.
load_table(heap_, ref) ==
    LET t == heap_[ref]
        columns == heap_[t.columns]
    IN  TableInfo(t.table_name, t.schema_name, t.table_type,
                  [i \in 1..Len(columns) |-> heap_[columns[i]]],
                  heap_[t.primary_keys], heap_[t.unique_constraints],
                  t.row_count)

translate_oracle_to_sqlserver_on(heap_, table_info) ==
    LET t == heap_[table_info]
        columns == heap_[t.columns]
        n == Len(columns)
        base == Len(heap_)
        translated_columns == [i \in 1..n |-> base + i]
    IN  [heap |-> heap_
                      \o [i \in 1..n |-> _translate_column(heap_[columns[i]])]
                      \o << translated_columns >>
                      \o << TableInfo(t.table_name, t.schema_name,
                                      t.table_type, base + n + 1,
                                      t.primary_keys, t.unique_constraints,
                                      t.row_count) >>,
         result |-> base + n + 2]

\* Mutant of add_audit_columns_on: the audit column is appended to the list
\* of the table passed in.
add_audit_columns_on_in_place(heap_, table_info) ==
    LET t == heap_[table_info]
        base == Len(heap_)
    IN  [heap |-> [heap_ EXCEPT ![t.columns] = @ \o << base + 1 >>]
                      \o << audit_column >>
                      \o << TableInfo(t.table_name, t.schema_name,
                                      t.table_type, t.columns,
                                      t.primary_keys, t.unique_constraints,
                                      t.row_count) >>,
         result |-> base + 2]

add_audit_columns_on(heap_, table_info) ==
    LET t == heap_[table_info]
        base == Len(heap_)
        new_columns == heap_[t.columns] \o << base + 1 >>
    IN  [heap |-> heap_
                      \o << audit_column >>
                      \o << new_columns >>
                      \o << TableInfo(t.table_name, t.schema_name,
                                      t.table_type, base + 2,
                                      t.primary_keys, t.unique_constraints,
                                      t.row_count) >>,
         result |-> base + 3]

\* generate_ddl and the functions it calls read the descriptors and build
\* text, tuples and a DDLOutput; they assign to no descriptor.
generate_ddl_on(heap_, table_info, target_schema, target_table_name_, create_view) ==
    [heap |-> heap_,
     result |-> generate_ddl(load_table(heap_, table_info), target_schema,
                             target_table_name_, create_view)]

InitCalls ==
    /\ NoStorage
    /\ NoMigration
    /\ NoProject
    /\ pc = "calls"
    /\ NoColumn
    /\ NoNaming
    /\ current_table_info \in TableInputs
    /\ migration_config \in ConfigInputs
    /\ db_type \in {"oracle", "sqlserver"}
    /\ translated_table = None
    /\ table_with_audit = None
    /\ target_table_name = None
    /\ ddl_output = None
    /\ sqlproj_entries = None
    /\ heap = store_table(current_table_info)
    /\ table_info_ref = Len(heap)
    /\ translated_table_ref = 0
    /\ table_with_audit_ref = 0

\* generate_ddl_preview: translated_table = ...
step_translate ==
    /\ pc = "calls"
    /\ IF db_type = "oracle"
       THEN LET call == translate_oracle_to_sqlserver_on(heap, table_info_ref)
            IN  /\ heap' = call.heap
                /\ translated_table_ref' = call.result
       ELSE /\ heap' = heap
            /\ translated_table_ref' = table_info_ref
    /\ pc' = "calls_translated"
    /\ UNCHANGED << table_info_ref, table_with_audit_ref, columnVars,
                    sessionVars, namingVars,
                    moreVars >>

\* generate_ddl_preview: table_with_audit = ...
step_add_audit_columns ==
    /\ pc = "calls_translated"
    /\ LET call == add_audit_columns_on(heap, translated_table_ref)
       IN  /\ heap' = call.heap
           /\ table_with_audit_ref' = call.result
    /\ pc' = "calls_audited"
    /\ UNCHANGED << table_info_ref, translated_table_ref, columnVars,
                    sessionVars, namingVars,
                    moreVars >>

\* generate_ddl_preview: target_table_name = ... and ddl_output = ...
step_generate_ddl ==
    /\ pc = "calls_audited"
    /\ LET config == migration_config
           name == apply_naming_conventions(heap[table_info_ref].table_name,
                                            config.source_prefix)
           call == generate_ddl_on(heap, table_with_audit_ref,
                                   config.target_schema, name,
                                   config.create_view)
       IN  /\ heap' = call.heap
           /\ target_table_name' = name
           /\ ddl_output' = call.result
    /\ pc' = "calls_generated"
    /\ UNCHANGED << table_info_ref, translated_table_ref,
                    table_with_audit_ref, current_table_info,
                    migration_config, db_type, translated_table,
                    table_with_audit, sqlproj_entries, columnVars,
                    namingVars,
                    moreVars >>

NextCalls == step_translate \/ step_add_audit_columns \/ step_generate_ddl

SpecCalls == InitCalls /\ [][NextCalls]_vars

(***************************************************************************)
(* SchemaTranslator.estimate_storage_impact and _get_performance_notes.    *)
(***************************************************************************)

\* text.endswith(suffix)
endswith(text, suffix) ==
    /\ Len(text) >= Len(suffix)
    /\ SubSeq(text, Len(text) - Len(suffix) + 1, Len(text)) = suffix

\* What one column adds to estimated_row_size.
column_row_size(c) ==
    IF c.data_type \in {"NVARCHAR", "VARBINARY"}
    THEN IF TruthyInt(c.max_length) THEN Val(c.max_length) * 2 ELSE 510
    ELSE IF c.data_type = "NCHAR"
    THEN (IF TruthyInt(c.max_length) THEN Val(c.max_length) ELSE 1) * 2
    ELSE IF c.data_type \in {"INT", "BIGINT"} THEN 8
    ELSE IF c.data_type = "DECIMAL" THEN 9
    ELSE IF c.data_type = "DATETIME2" THEN 8
    ELSE 8

RECURSIVE row_size(_)
row_size(columns) ==
    IF Len(columns) = 0 THEN 0
    ELSE column_row_size(Head(columns)) + row_size(Tail(columns))

\* variable_length_columns: the columns of the first branch.
variable_length_count(columns) ==
    Cardinality({i \in 1..Len(columns) :
                     columns[i].data_type \in {"NVARCHAR", "VARBINARY"}})

\* len(varchar_columns)
varchar_count(columns) ==
    Cardinality({i \in 1..Len(columns) : columns[i].data_type = "NVARCHAR"})

large_object_note ==
    "Table contains large object columns (MAX) which may impact performance"

no_primary_key_note ==
    "Table has no primary key - consider adding one for better performance"

many_columns_note ==
    "Table has many variable-length columns which may impact row storage"

\* Mutant of _get_performance_notes: ten variable-length columns are many
\* already.
_get_performance_notes_from_ten(table_info) ==
    LET columns == table_info.columns
        has_clob == \E i \in 1..Len(columns) : str_in("MAX", columns[i].data_type)
    IN  (IF has_clob THEN << large_object_note >> ELSE << >>)
            \o (IF Len(table_info.primary_keys) = 0
                THEN << no_primary_key_note >> ELSE << >>)
            \o (IF varchar_count(columns) >= 10
                THEN << many_columns_note >> ELSE << >>)

_get_performance_notes(table_info) ==
    LET columns == table_info.columns
        has_clob == \E i \in 1..Len(columns) : str_in("MAX", columns[i].data_type)
    IN  (IF has_clob THEN << large_object_note >> ELSE << >>)
            \o (IF Len(table_info.primary_keys) = 0
                THEN << no_primary_key_note >> ELSE << >>)
            \o (IF varchar_count(columns) > 10
                THEN << many_columns_note >> ELSE << >>)

\* estimated_table_size_mb is the quotient of the two numbers of the pair
\* (the code divides as floating point).
estimate_storage_impact(table_info) ==
    LET columns == table_info.columns
        estimated_row_size == row_size(columns) + 24
    IN  [estimated_row_size_bytes |-> estimated_row_size,
         estimated_table_size_mb |->
             IF TruthyInt(table_info.row_count)
             THEN << estimated_row_size * Val(table_info.row_count),
                     1024 * 1024 >>
             ELSE << 0, 1 >>,
         variable_length_columns |-> variable_length_count(columns),
         has_large_objects |->
             \E i \in 1..Len(columns) : endswith(columns[i].data_type, "(MAX)"),
         performance_notes |-> _get_performance_notes(table_info)]

(***************************************************************************)
(* show_storage_impact (main_ui.py) on a selected table.                   *)
(***************************************************************************)
MaxVarcharColumns == 12

MaxExtraColumns == 2

\* A column of the given type and length, nothing else set.
plain_column(name, data_type, max_length) ==
    ColumnInfo(name, data_type, TRUE, max_length, None, None, FALSE, FALSE, None)

StorageColumns ==
    {plain_column("L", "CLOB", None),
     plain_column("M", "NVARCHAR(MAX)", None),
     plain_column("B", "VARBINARY", Some(16)),
     plain_column("F", "NCHAR", Some(10)),
     plain_column("G", "NCHAR", None),
     plain_column("W", "NVARCHAR", None),
     plain_column("I", "INT", None),
     plain_column("D", "DECIMAL", None),
     plain_column("T", "DATETIME2", None),
     plain_column("X", "XML", None)}

StorageTableInputs ==
    {TableInfo("T", "HR", "TABLE",
               [i \in 1..k |-> plain_column("V", "NVARCHAR", Some(40))] \o extra,
               keys, << >>, rows) :
        k \in 0..MaxVarcharColumns,
        extra \in SeqsUpTo(StorageColumns, MaxExtraColumns),
        keys \in {<< >>, << "ID" >>}, rows \in {None, Some(1000)}}

InitStorage ==
    /\ pc = "storage"
    /\ NoColumn
    /\ NoNaming
    /\ NoHeap
    /\ NoStorage
    /\ NoMigration
    /\ NoProject
    /\ current_table_info \in StorageTableInputs
    /\ migration_config = None
    /\ db_type \in {"oracle", "sqlserver"}
    /\ translated_table = None
    /\ table_with_audit = None
    /\ target_table_name = None
    /\ ddl_output = None
    /\ sqlproj_entries = None

show_storage_impact ==
    /\ pc = "storage"
    /\ LET table_info == current_table_info
           translated == IF db_type = "oracle"
                         THEN translate_oracle_to_sqlserver(table_info)
                         ELSE table_info
       IN  /\ translated_table' = translated
           /\ storage_impact' = Some(estimate_storage_impact(translated))
    /\ pc' = "storage_shown"
    /\ UNCHANGED << current_table_info, migration_config, db_type,
                    table_with_audit, target_table_name, ddl_output,
                    sqlproj_entries, columnVars, namingVars, heapVars,
                    migrationVars, projectVars >>

NextStorage == show_storage_impact

SpecStorage == InitStorage /\ [][NextStorage]_vars

(***************************************************************************)
(* GitManager.update_sqlproj (git_manager.py).  The project file is held   *)
(* as the element tree its text parses to: a sequence of ItemGroup         *)
(* elements, each with its child elements; ns tells whether an element's   *)
(* tag is in the msbuild namespace.                                        *)
(***************************************************************************)
Element(tag, ns, include) == [tag |-> tag, ns |-> ns, Include |-> include]

ItemGroup(ns, items) == [ns |-> ns, items |-> items]

Whitespace == {" ", "\n", "\t", "\r"}

\* text.strip()
strip(text) ==
    LET inked == {k \in 1..Len(text) : CharAt(text, k) \notin Whitespace}
    IN  IF inked = {} THEN ""
        ELSE SubSeq(text, CHOOSE k \in inked : \A j \in inked : k <= j,
                    CHOOSE k \in inked : \A j \in inked : k >= j)

startswith(text, prefix) ==
    Len(text) >= Len(prefix) /\ SubSeq(text, 1, Len(prefix)) = prefix

\* Whether an entry, stripped, is taken for a Build element.
is_build_entry(entry_clean) ==
    /\ startswith(entry_clean, "<Build Include=\"")
    /\ endswith(entry_clean, "\" />")

\* entry_clean[15:-4]
include_path_of(entry_clean) ==
    SubSeq(entry_clean, 16, Len(entry_clean) - 4)

\* The Include attribute the XML parser reads from an entry's text.
parsed_include(entry) ==
    LET entry_clean == strip(entry)
    IN  SubSeq(entry_clean, 17, Len(entry_clean) - 4)

\* The seven Folder elements of a new project file.
new_project_folders ==
    << Element("Folder", TRUE, "Properties"),
       Element("Folder", TRUE, "temp_schema"),
       Element("Folder", TRUE, "temp_schema\\Tables"),
       Element("Folder", TRUE, "temp_schema\\Views"),
       Element("Folder", TRUE, "bronze_schema"),
       Element("Folder", TRUE, "bronze_schema\\Tables"),
       Element("Folder", TRUE, "bronze_schema\\Views") >>

\* The tree of the file _create_sqlproj_file writes: the entries' text is
\* put into the second ItemGroup as it is.
_create_sqlproj_file(entries) ==
    << ItemGroup(TRUE, new_project_folders),
       ItemGroup(TRUE, [i \in 1..Len(entries) |->
                           Element("Build", TRUE, parsed_include(entries[i]))]) >>

\* Whether ElementTree rejects the predicate [@Include="value"] with
\* SyntaxError('invalid predicate'): a double quote in the value ends the
\* quoted text before its end.
invalid_predicate(value) == str_in("\"", value)

\* item_group.find('.//{ns}Build[@Include="..."]') is not None
build_exists(items, include_path) ==
    \E i \in 1..Len(items) :
        /\ items[i].tag = "Build"
        /\ items[i].ns
        /\ items[i].Include = include_path

\* The loop over the entries: the children of the Build ItemGroup it
\* leaves, or raised when find raises.
RECURSIVE add_entries(_, _)
add_entries(items, entries) ==
    IF Len(entries) = 0 THEN [raised |-> FALSE, items |-> items]
    ELSE LET entry_clean == strip(Head(entries))
             include_path == include_path_of(entry_clean)
         IN  IF ~is_build_entry(entry_clean)
             THEN add_entries(items, Tail(entries))
             ELSE IF invalid_predicate(include_path)
             THEN [raised |-> TRUE, items |-> items]
             ELSE IF build_exists(items, include_path)
             THEN add_entries(items, Tail(entries))
             ELSE add_entries(Append(items, Element("Build", FALSE,
                                                    include_path)),
                              Tail(entries))

\* The first ItemGroup in the namespace with a Build child in the
\* namespace, 0 when there is none.
build_item_group(tree) ==
    LET found == {i \in 1..Len(tree) :
                      /\ tree[i].ns
                      /\ \E k \in 1..Len(tree[i].items) :
                             /\ tree[i].items[k].tag = "Build"
                             /\ tree[i].items[k].ns}
    IN  IF found = {} THEN 0 ELSE CHOOSE i \in found : \A j \in found : i <= j

\* What _update_existing_sqlproj returns and the tree of the file it
\* leaves: the file is written only when nothing raised.
_update_existing_sqlproj(tree, entries) ==
    LET at == build_item_group(tree)
        with_group == IF at = 0 THEN Append(tree, ItemGroup(FALSE, << >>))
                      ELSE tree
        group == IF at = 0 THEN Len(with_group) ELSE at
        added == add_entries(with_group[group].items, entries)
    IN  IF added.raised
        THEN [success |-> FALSE, file |-> Some(tree)]
        ELSE [success |-> TRUE,
              file |-> Some([with_group EXCEPT ![group].items = added.items])]

\* update_sqlproj on the project file given (None when there is none).
update_sqlproj(file, entries) ==
    IF file = None
    THEN [success |-> TRUE, file |-> Some(_create_sqlproj_file(entries))]
    ELSE _update_existing_sqlproj(Val(file), entries)

(***************************************************************************)
(* update_sqlproj called again and again with the same entries.            *)
(***************************************************************************)
MaxEntries == 2

MaxUpdateCalls == 2

EntryTexts ==
    {build_include("bronze_schema\\Tables\\src_t.sql"),
     build_include("bronze_schema\\Views\\HR_T.sql"),
     build_include("bronze_schema\\Tables\\src_u.sql"),
     "    <Folder Include=\"docs\" />"}

EntryInputs == SeqsUpTo(EntryTexts, MaxEntries)

ProjectFileInputs ==
    {None, Some(<< ItemGroup(TRUE, << Element("Folder", TRUE, "docs") >>) >>)}
        \cup {Some(_create_sqlproj_file(entries)) :
                  entries \in SeqsUpTo(EntryTexts, 1)}

InitProject ==
    /\ pc = "project"
    /\ NoColumn
    /\ NoNaming
    /\ NoHeap
    /\ NoStorage
    /\ NoMigration
    /\ current_table_info = None
    /\ migration_config = None
    /\ db_type = ""
    /\ translated_table = None
    /\ table_with_audit = None
    /\ target_table_name = None
    /\ ddl_output = None
    /\ sqlproj_entries \in EntryInputs
    /\ sqlproj_file \in ProjectFileInputs
    /\ update_result = << >>

call_update_sqlproj ==
    /\ pc = "project"
    /\ Len(update_result) < MaxUpdateCalls
    /\ LET call == update_sqlproj(sqlproj_file, sqlproj_entries)
       IN  /\ sqlproj_file' = call.file
           /\ update_result' = Append(update_result, call.success)
    /\ UNCHANGED << pc, columnVars, sessionVars, namingVars, heapVars,
                    storageVars, migrationVars >>

NextProject == call_update_sqlproj

SpecProject == InitProject /\ [][NextProject]_vars

(***************************************************************************)
(* execute_migration (main_ui.py).  Every GitManager method catches what   *)
(* it raises and reports through its return value; the other statements of *)
(* a step (status text, progress bar, configuration look-ups) may raise,    *)
(* before the call or after it has returned success.                       *)
(***************************************************************************)
StepOutcomes == {"success", "failure", "raised_before", "raised_after"}

Range(seq) == {seq[i] : i \in 1..Len(seq)}

\* Mutant of after_step: a step that reports failure is followed by the
\* next step all the same.
after_step_no_return(outcome, next) ==
    IF outcome \in {"success", "failure"} THEN next ELSE "migrate_except"

\* Where execute_migration goes on after a step: the next step, the return
\* after `if not success`, or the except branch.
after_step(outcome, next) ==
    IF outcome = "success" THEN next
    ELSE IF outcome = "failure" THEN "migration_ended"
    ELSE "migrate_except"

\* Mutant of rollback_attempted: the rollback is attempted whenever the
\* except branch runs.
rollback_attempted_always(created) ==
    TRUE

\* 'created_files' in locals()
rollback_attempted(created) ==
    created # None

\* str(full_path.relative_to(self.repo_path))
relative_path(database_name, file_path) == database_name \o "/" \o file_path

\* The paths write_files returns for the first k files.
written_paths(files_to_create, database_name, k) ==
    [i \in 1..k |-> relative_path(database_name, files_to_create[i][1])]

sqlproj_path(database_name) ==
    database_name \o "/" \o database_name \o ".sqlproj"

\* The record execute_migration's try block leaves of a step.
step_record(step, outcome) == [step |-> step, outcome |-> outcome]

MigrationOutputs ==
    {generate_ddl(add_audit_columns(translate_oracle_to_sqlserver(t)),
                  "bronze_schema",
                  apply_naming_conventions(t.table_name, "src"), view) :
        t \in {TableInfo(name, "HR", "TABLE", << >>, << >>, << >>, None) :
                   name \in TableNames},
        view \in BOOLEAN}

InitMigration ==
    /\ pc = "migrate_branch"
    /\ NoColumn
    /\ NoNaming
    /\ NoHeap
    /\ NoStorage
    /\ current_table_info = None
    /\ migration_config = [target_database_name |-> "DB", base_branch |-> "dev"]
    /\ db_type = ""
    /\ translated_table = None
    /\ table_with_audit = None
    /\ target_table_name = None
    /\ ddl_output \in MigrationOutputs
    /\ sqlproj_entries = None
    /\ step_results = << >>
    /\ repo_files = {}
    /\ created_files = None
    /\ branch_created = FALSE
    /\ committed_files = None
    /\ rolled_back = None
    /\ sqlproj_file \in
           {None, Some(<< ItemGroup(TRUE, << Element("Folder", TRUE, "docs") >>) >>)}
    /\ update_result = << >>

\* Step 1: create_feature_branch.
step_create_branch ==
    /\ pc = "migrate_branch"
    /\ \E outcome \in StepOutcomes :
           /\ step_results' = Append(step_results,
                                     step_record("create_branch", outcome))
           /\ branch_created' = (outcome \in {"success", "raised_after"})
           /\ pc' = after_step(outcome, "migrate_directories")
    /\ UNCHANGED << repo_files, created_files, committed_files, rolled_back,
                    projectVars, columnVars, sessionVars, namingVars,
                    heapVars, storageVars >>

\* Step 2: create_directory_structure.
step_create_directories ==
    /\ pc = "migrate_directories"
    /\ \E outcome \in StepOutcomes :
           /\ step_results' = Append(step_results,
                                     step_record("create_directories", outcome))
           /\ pc' = after_step(outcome, "migrate_write")
    /\ UNCHANGED << repo_files, created_files, branch_created,
                    committed_files, rolled_back, projectVars, columnVars,
                    sessionVars, namingVars, heapVars, storageVars >>

\* Step 3: write_files.  A failure leaves the files written before it and
\* returns their paths.
step_write_files ==
    /\ pc = "migrate_write"
    /\ LET files == ddl_output.files_to_create
           database_name == migration_config.target_database_name
       IN  \E outcome \in StepOutcomes, k \in 0..Len(files) :
               /\ outcome \in {"success", "raised_after"} => k = Len(files)
               /\ outcome = "raised_before" => k = 0
               /\ step_results' = Append(step_results,
                                         step_record("write_files", outcome))
               /\ created_files' =
                      IF outcome = "raised_before" THEN created_files
                      ELSE Some(written_paths(files, database_name, k))
               /\ repo_files' =
                      repo_files \cup Range(written_paths(files, database_name, k))
               /\ pc' = after_step(outcome, "migrate_project")
    /\ UNCHANGED << branch_created, committed_files, rolled_back, projectVars,
                    columnVars, sessionVars, namingVars, heapVars,
                    storageVars >>

\* Step 4: generate_sqlproj_entries and update_sqlproj.  The step reports
\* success only if update_sqlproj does.
step_update_project ==
    /\ pc = "migrate_project"
    /\ LET entries == generate_sqlproj_entries(ddl_output.files_to_create)
           call == update_sqlproj(sqlproj_file, entries)
       IN  \E outcome \in StepOutcomes :
               /\ outcome \in {"success", "raised_after"} => call.success
               /\ step_results' = Append(step_results,
                                         step_record("update_project", outcome))
               /\ sqlproj_entries' =
                      IF outcome = "raised_before" THEN sqlproj_entries
                      ELSE entries
               /\ sqlproj_file' =
                      IF outcome \in {"success", "raised_after"}
                      THEN call.file ELSE sqlproj_file
               /\ update_result' =
                      IF outcome = "raised_before" THEN update_result
                      ELSE Append(update_result,
                                  outcome \in {"success", "raised_after"})
               /\ pc' = after_step(outcome, "migrate_commit")
    /\ UNCHANGED << current_table_info, migration_config, db_type,
                    translated_table, table_with_audit, target_table_name,
                    ddl_output, repo_files, created_files, branch_created,
                    committed_files, rolled_back, columnVars, namingVars,
                    heapVars, storageVars >>

\* Step 5: commit_changes.
step_commit ==
    /\ pc = "migrate_commit"
    /\ LET database_name == migration_config.target_database_name
           all_files == Val(created_files) \o << sqlproj_path(database_name) >>
       IN  \E outcome \in StepOutcomes :
               /\ step_results' = Append(step_results,
                                         step_record("commit", outcome))
               /\ committed_files' =
                      IF outcome \in {"success", "raised_after"}
                      THEN Some(all_files) ELSE committed_files
               /\ pc' = after_step(outcome, "migrate_finish")
    /\ UNCHANGED << repo_files, created_files, branch_created, rolled_back,
                    projectVars, columnVars, sessionVars, namingVars,
                    heapVars, storageVars >>

\* After step 5: the success messages and log_migration_success, which may
\* raise.
finish_migration ==
    /\ pc = "migrate_finish"
    /\ \E raised \in BOOLEAN :
           pc' = IF raised THEN "migrate_except" ELSE "migrated"
    /\ UNCHANGED << migrationVars, projectVars, columnVars, sessionVars,
                    namingVars, heapVars, storageVars >>

\* The except branch: rollback_changes(created_files) if write_files has
\* returned; the rollback deletes the files up to the point where it fails.
handle_exception ==
    /\ pc = "migrate_except"
    /\ IF rollback_attempted(created_files)
       THEN LET files == IF created_files = None THEN << >>
                         ELSE Val(created_files)
            IN  \E deleted \in SUBSET Range(files) :
                    /\ rolled_back' = Some(files)
                    /\ repo_files' = repo_files \ deleted
       ELSE UNCHANGED << rolled_back, repo_files >>
    /\ pc' = "migration_failed"
    /\ UNCHANGED << step_results, created_files, branch_created,
                    committed_files, projectVars, columnVars, sessionVars,
                    namingVars, heapVars, storageVars >>

NextMigration ==
    \/ step_create_branch
    \/ step_create_directories
    \/ step_write_files
    \/ step_update_project
    \/ step_commit
    \/ finish_migration
    \/ handle_exception

SpecMigration == InitMigration /\ [][NextMigration]_vars

(***************************************************************************)
(* Properties of _translate_column, checked under SpecColumn.              *)
(***************************************************************************)
ColumnDone == pc = "column_done"

Out == Val(translated_col)

NumberNames == {"NUMBER", "number"}

\* x clamped to the inclusive range lo..hi.
Clamp(x, lo, hi) == IF x < lo THEN lo ELSE IF x > hi THEN hi ELSE x

\* C2: a NUMBER column with a precision and with no scale or scale 0 becomes
\* INT when precision <= 9 and BIGINT otherwise, for every integer
\* precision, and its translated precision and scale are absent.
C2_IntegerByPrecision ==
    (/\ ColumnDone
     /\ col.data_type \in NumberNames
     /\ col.precision # None
     /\ (col.scale = None \/ Val(col.scale) = 0))
    => /\ Out.data_type = IF Val(col.precision) <= 9 THEN "INT" ELSE "BIGINT"
       /\ Out.precision = None
       /\ Out.scale = None

\* C3: a NUMBER column with a present, nonzero scale becomes DECIMAL and
\* keeps its precision (present or absent) and its scale.
C3_DecimalKeepsPrecisionAndScale ==
    (/\ ColumnDone
     /\ col.data_type \in NumberNames
     /\ col.scale # None
     /\ Val(col.scale) # 0)
    => /\ Out.data_type = "DECIMAL"
       /\ Out.precision = col.precision
       /\ Out.scale = col.scale

C3_Witness ==
    /\ ColumnDone
    /\ col.data_type = "NUMBER"
    /\ col.precision = Some(10)
    /\ col.scale = Some(2)
    /\ Out.data_type = "DECIMAL"
    /\ Out.precision = Some(10)
    /\ Out.scale = Some(2)

\* C4: a NUMBER column with neither precision nor scale becomes BIGINT with
\* precision and scale absent, whatever the static mapping holds for NUMBER.
C4_BareNumberIsBigint ==
    (/\ ColumnDone
     /\ col.data_type \in NumberNames
     /\ col.precision = None
     /\ col.scale = None)
    => /\ Out.data_type = "BIGINT"
       /\ Out.precision = None
       /\ Out.scale = None

C4_Witness ==
    /\ ColumnDone
    /\ col.data_type = "NUMBER"
    /\ col.precision = None
    /\ col.scale = None
    /\ Out.data_type = "BIGINT"
    /\ oracle_to_sqlserver_mapping["NUMBER"] = "DECIMAL"

\* C5: with no source max_length, a column translated to NVARCHAR gets
\* max_length 255 and a column translated to NCHAR gets max_length 1.
C5_DefaultLengths ==
    (ColumnDone /\ col.max_length = None)
    => /\ Out.data_type = "NVARCHAR" => Out.max_length = Some(255)
       /\ Out.data_type = "NCHAR" => Out.max_length = Some(1)

\* C6: a column translated to NVARCHAR or NCHAR whose source max_length is
\* an integer L gets max_length floor(L / 4) clamped to 1..4000.
C6_UnicodeLengthClamped ==
    (/\ ColumnDone
     /\ Out.data_type \in {"NVARCHAR", "NCHAR"}
     /\ col.max_length # None)
    => Out.max_length = Some(Clamp(Val(col.max_length) \div 4, 1, 4000))

\* Whether a type name is looked up as a key of the static mapping.
Unmapped(type_name) ==
    /\ upper(type_name) \notin DOMAIN oracle_to_sqlserver_mapping
    /\ upper(type_name) # "NUMBER"

\* C7 (as amended): a source type name that, upper-cased, is neither a key
\* of the static mapping nor NUMBER passes through upper-cased: the
\* translated data_type is the source data_type in upper case.
C7_UnmappedPassesUpperCased ==
    (ColumnDone /\ Unmapped(col.data_type))
    => Out.data_type = upper(col.data_type)

C7_Witness ==
    /\ ColumnDone
    /\ col.data_type = "json"
    /\ Unmapped(col.data_type)
    /\ Out.data_type = "JSON"

\* C7 (as stated): a source type name that is not a key of the static
\* mapping and is not NUMBER passes through unchanged: the translated
\* data_type is exactly the source data_type string.
C7_UnmappedPassesUnchanged ==
    (ColumnDone /\ Unmapped(col.data_type))
    => Out.data_type = col.data_type

\* C8: a column translated to VARBINARY whose source max_length is an
\* integer L gets max_length min(L, 8000), not rescaled.
C8_VarbinaryLengthCapped ==
    (/\ ColumnDone
     /\ Out.data_type = "VARBINARY"
     /\ col.max_length # None)
    => Out.max_length =
           Some(IF Val(col.max_length) <= 8000 THEN Val(col.max_length)
                ELSE 8000)

C8_Witness ==
    /\ ColumnDone
    /\ col.data_type = "RAW"
    /\ col.max_length = Some(8001)
    /\ Out.data_type = "VARBINARY"
    /\ Out.max_length = Some(8000)

(***************************************************************************)
(* Properties of the pipeline of generate_ddl_preview, checked under Spec. *)
(***************************************************************************)
Previewed == pc \in {"previewed", "entries"}

\* Whether sub occurs in text.
Contains(text, sub) ==
    \E i \in 1..(Len(text) - Len(sub) + 1) :
        SubSeq(text, i, i + Len(sub) - 1) = sub

\* The table and configuration of the end-to-end example: columns
\* ID NUMBER(9) and NAME VARCHAR2(400) NOT NULL, primary key ID, prefix src,
\* target schema bronze_schema, a view asked for, an Oracle source.
C1_Case ==
    /\ Previewed
    /\ db_type = "oracle"
    /\ Len(current_table_info.columns) = 2
    /\ current_table_info.columns[1].column_name = "ID"
    /\ current_table_info.columns[1].data_type = "NUMBER"
    /\ current_table_info.columns[1].precision = Some(9)
    /\ current_table_info.columns[1].scale = None
    /\ current_table_info.columns[2].column_name = "NAME"
    /\ current_table_info.columns[2].data_type = "VARCHAR2"
    /\ current_table_info.columns[2].max_length = Some(400)
    /\ ~current_table_info.columns[2].nullable
    /\ current_table_info.primary_keys = << "ID" >>
    /\ migration_config.source_prefix = "src"
    /\ migration_config.target_schema = "bronze_schema"
    /\ migration_config.create_view

\* What the example's DDL and file list hold, for the target name given.
C1_Output(name) ==
    /\ ddl_output.target_table_name = name
    /\ Contains(ddl_output.table_ddl, "[ID] INT")
    /\ Contains(ddl_output.table_ddl, "[NAME] NVARCHAR(100) NOT NULL")
    /\ Contains(ddl_output.table_ddl,
                "[record_insert_datetime] DATETIME2 NOT NULL "
                    \o "CONSTRAINT [DF_record_insert_datetime] "
                    \o "DEFAULT (GETDATE())")
    /\ Contains(ddl_output.table_ddl,
                "CONSTRAINT [PK_" \o name \o "] PRIMARY KEY ([ID])")
    /\ Len(ddl_output.files_to_create) = 2
    /\ Contains(ddl_output.files_to_create[1][1], "/Tables/")
    /\ Contains(ddl_output.files_to_create[2][1], "/Views/")

\* C1 (as amended): in the end-to-end example the target table name is
\* src_ followed by the lower-cased table name with every character outside
\* [a-z0-9_] replaced by _; the table DDL holds [ID] INT,
\* [NAME] NVARCHAR(100) NOT NULL, the audit column with its named default
\* constraint and the PK constraint named after the target table; there are
\* exactly two files, a Tables path then a Views path.
C1_EndToEnd ==
    C1_Case
    => C1_Output("src_" \o clean(lower(current_table_info.table_name)))

C1_Witness ==
    /\ C1_Case
    /\ current_table_info.table_name = "EMP$1"
    /\ ddl_output.target_table_name = "src_emp_1"
    /\ Contains(ddl_output.table_ddl,
                "CONSTRAINT [PK_src_emp_1] PRIMARY KEY ([ID])")

\* C1 (as stated): in the end-to-end example the target table name is src_
\* followed by the lower-cased table name, and the DDL and the file list
\* hold what the example says.
C1_EndToEndLowerCasedName ==
    C1_Case => C1_Output("src_" \o lower(current_table_info.table_name))

\* The fields of a column that translation must keep.
SameColumnFrame(a, b) ==
    /\ DOMAIN a = DOMAIN b
    /\ a.column_name = b.column_name
    /\ a.nullable = b.nullable
    /\ a.is_primary_key = b.is_primary_key
    /\ a.is_unique = b.is_unique
    /\ a.default_value = b.default_value

\* The fields of a table other than its columns.
SameTableFrame(a, b) ==
    /\ DOMAIN a = DOMAIN b
    /\ a.table_name = b.table_name
    /\ a.schema_name = b.schema_name
    /\ a.table_type = b.table_type
    /\ a.primary_keys = b.primary_keys
    /\ a.unique_constraints = b.unique_constraints
    /\ a.row_count = b.row_count

\* C9: translate_oracle_to_sqlserver returns as many columns in the same
\* order, each keeping column_name, nullable, is_primary_key, is_unique and
\* default_value, and a table keeping every field but its columns.
C9_TranslationFrame ==
    (Previewed /\ db_type = "oracle")
    => /\ Len(translated_table.columns) = Len(current_table_info.columns)
       /\ \A i \in 1..Len(current_table_info.columns) :
              SameColumnFrame(translated_table.columns[i],
                              current_table_info.columns[i])
       /\ SameTableFrame(translated_table, current_table_info)

C9_Witness ==
    /\ Previewed
    /\ db_type = "oracle"
    /\ Len(current_table_info.columns) = 2
    /\ current_table_info.columns[1].column_name = "CODE"
    /\ current_table_info.columns[1].is_unique
    /\ current_table_info.columns[2].column_name = "ID"
    /\ current_table_info.columns[2].is_primary_key
    /\ current_table_info.row_count = Some(1000)
    /\ translated_table.columns[1].data_type = "NCHAR"
    /\ translated_table.columns[2].data_type = "INT"
    /\ translated_table.columns[2].precision = None

\* C10: add_audit_columns returns the input's columns, unchanged and in
\* order, followed by one column record_insert_datetime DATETIME2, not
\* nullable, default GETDATE(); every other table field is unchanged.
C10_AuditColumnAppended ==
    Previewed
    => LET n == Len(translated_table.columns)
           last == table_with_audit.columns[n + 1]
       IN  /\ Len(table_with_audit.columns) = n + 1
           /\ SubSeq(table_with_audit.columns, 1, n) = translated_table.columns
           /\ last.column_name = "record_insert_datetime"
           /\ last.data_type = "DATETIME2"
           /\ last.nullable = FALSE
           /\ last.default_value = Some("GETDATE()")
           /\ SameTableFrame(table_with_audit, translated_table)

C10_Witness ==
    /\ Previewed
    /\ Len(translated_table.columns) = 2
    /\ translated_table.columns[2].column_name = "record_insert_datetime"
    /\ translated_table.columns[2].default_value = Some("SYSDATE")
    /\ Len(table_with_audit.columns) = 3
    /\ table_with_audit.columns[2] = translated_table.columns[2]
    /\ table_with_audit.columns[3].default_value = Some("GETDATE()")

\* The DDL text of a view over the columns given, none left out.
ViewOver(columns) ==
    "CREATE VIEW [" \o migration_config.target_schema \o "].["
        \o current_table_info.schema_name \o "_"
        \o current_table_info.table_name \o "] AS\nSELECT\n"
        \o Join([i \in 1..Len(columns) |->
                    "    [" \o columns[i].column_name \o "]"], ",\n")
        \o "\nFROM [" \o migration_config.target_schema \o "].["
        \o target_table_name \o "];"

\* C11: the view's column list is the table's column names without the
\* appended audit column and with nothing else removed, in the original
\* order, each as [name]: no source column is dropped from the view.
C11_ViewKeepsEverySourceColumn ==
    (Previewed /\ migration_config.create_view)
    => Val(ddl_output.view_ddl) = ViewOver(translated_table.columns)

\* The text of a PRIMARY KEY clause up to its column list.
PrimaryKeyClause == "CONSTRAINT [PK_" \o target_table_name \o "] PRIMARY KEY ("

\* C12: the table DDL holds CONSTRAINT [PK_<target table name>] PRIMARY KEY
\* (...) if and only if primary_keys is not empty, and the clause lists the
\* names of primary_keys in their order, a name matching no column included.
C12_PrimaryKeyClause ==
    Previewed
    => LET keys == current_table_info.primary_keys
       IN  /\ Contains(ddl_output.table_ddl, PrimaryKeyClause)
                  <=> Len(keys) > 0
           /\ Contains(ddl_output.table_ddl, "PRIMARY KEY") <=> Len(keys) > 0
           /\ Len(keys) > 0
                  => Contains(ddl_output.table_ddl,
                              PrimaryKeyClause
                                  \o Join([i \in 1..Len(keys) |->
                                              "[" \o keys[i] \o "]"], ", ")
                                  \o ")\n);")

C12_Witness ==
    /\ Previewed
    /\ current_table_info.primary_keys = << "ID", "NAME" >>
    /\ Len(current_table_info.columns) = 1
    /\ current_table_info.columns[1].column_name = "ID"
    /\ Contains(ddl_output.table_ddl, "PRIMARY KEY ([ID], [NAME])")

\* C13: files_to_create holds the table file, then the view file when a
\* view is asked for, each path under the target schema; view_ddl and
\* target_view_name are absent exactly when no view is asked for.
C13_FilesToCreate ==
    Previewed
    => LET schema == migration_config.target_schema
           table_file ==
               << schema \o "/Tables/" \o target_table_name \o ".sql",
                  ddl_output.table_ddl >>
           view_path ==
               schema \o "/Views/" \o current_table_info.schema_name \o "_"
                   \o current_table_info.table_name \o ".sql"
       IN  /\ ddl_output.view_ddl = None <=> ~migration_config.create_view
           /\ ddl_output.target_view_name = None
                  <=> ~migration_config.create_view
           /\ ddl_output.files_to_create =
                  IF migration_config.create_view
                  THEN << table_file,
                          << view_path, Val(ddl_output.view_ddl) >> >>
                  ELSE << table_file >>

C13_Witness ==
    /\ Previewed
    /\ migration_config.create_view
    /\ current_table_info.table_name = "Orders"
    /\ migration_config.source_prefix = "Stg-1"
    /\ Len(ddl_output.files_to_create) = 2
    /\ ddl_output.files_to_create[1][1]
           = "bronze_schema/Tables/stg_1_orders.sql"
    /\ ddl_output.files_to_create[2][1] = "bronze_schema/Views/HR_Orders.sql"

\* C14: generate_sqlproj_entries returns one entry per file of the list
\* generate_ddl produced, in the same order, each the Build Include of the
\* file's path with every / replaced by \.
C14_OneEntryPerFile ==
    pc = "entries"
    => /\ Len(sqlproj_entries) = Len(ddl_output.files_to_create)
       /\ \A i \in 1..Len(ddl_output.files_to_create) :
              LET path == ddl_output.files_to_create[i][1]
                  entry == sqlproj_entries[i]
                  included == SubSeq(entry, 21, Len(entry) - 4)
              IN  /\ SubSeq(entry, 1, 20) = "    <Build Include=\""
                  /\ SubSeq(entry, Len(entry) - 3, Len(entry)) = "\" />"
                  /\ Len(included) = Len(path)
                  /\ \A k \in 1..Len(path) :
                         CharAt(included, k) =
                             IF CharAt(path, k) = "/" THEN "\\"
                             ELSE CharAt(path, k)

C14_Witness ==
    /\ pc = "entries"
    /\ Len(ddl_output.files_to_create) = 2
    /\ sqlproj_entries =
           << "    <Build Include=\"bronze_schema\\Tables\\src_t.sql\" />",
              "    <Build Include=\"bronze_schema\\Views\\HR_T.sql\" />" >>

(***************************************************************************)
(* Properties of the naming operations, checked under SpecNaming.          *)
(***************************************************************************)
SanitizedChars == CharsOf(LowerLetters) \cup CharsOf(Digits) \cup {"_"}

\* A character lower-cased, and replaced by _ when outside [a-z0-9_].
SanitizedChar(c) ==
    IF c \in SanitizedChars THEN c
    ELSE IF c \in DOMAIN LowerOf THEN LowerOf[c]
    ELSE "_"

\* C15: apply_naming_conventions returns the sanitized prefix, an
\* underscore and the sanitized table name, where sanitizing lower-cases and
\* replaces each character outside [a-z0-9_] by _: every character of the
\* result is in [a-z0-9_] and its length is len(prefix) + 1 + len(table).
C15_SanitizedName ==
    pc = "named"
    => LET prefix == naming_input.source_prefix
           table == naming_input.table_name
           result == Val(naming_result)
       IN  /\ Len(result) = Len(prefix) + 1 + Len(table)
           /\ \A k \in 1..Len(prefix) :
                  CharAt(result, k) = SanitizedChar(CharAt(prefix, k))
           /\ CharAt(result, Len(prefix) + 1) = "_"
           /\ \A k \in 1..Len(table) :
                  CharAt(result, Len(prefix) + 1 + k)
                      = SanitizedChar(CharAt(table, k))
           /\ \A k \in 1..Len(result) : CharAt(result, k) \in SanitizedChars

C15_Witness ==
    /\ pc = "named"
    /\ naming_input.table_name = "Customer Orders"
    /\ naming_input.source_prefix = "Stg-1"
    /\ naming_result = Some("stg_1_customer_orders")

\* Whether a name matches ^[A-Za-z_][A-Za-z0-9_]*$ as re.match reads it.
MatchesIdentifierPattern(name) ==
    LET body == IF Len(name) > 0 /\ CharAt(name, Len(name)) = "\n"
                THEN SubSeq(name, 1, Len(name) - 1) ELSE name
    IN  /\ Len(body) > 0
        /\ CharAt(body, 1) \in CharsOf(LowerLetters) \cup CharsOf(UpperLetters)
                                   \cup {"_"}
        /\ \A k \in 1..Len(body) : CharAt(body, k) \in WordChars

\* Whether a name is a reserved word, letter case ignored.
ReservedIgnoringCase(name) == \E w \in reserved_words : lower(w) = lower(name)

C18_InputsUnmodified ==
    [][/\ Len(heap') >= Len(heap)
       /\ \A ref \in 1..Len(heap) : heap'[ref] = heap[ref]
       /\ (pc = "calls" /\ db_type = "oracle")
              => /\ translated_table_ref' > Len(heap)
                 /\ heap'[translated_table_ref'].columns > Len(heap)
       /\ pc = "calls_translated"
              => /\ table_with_audit_ref' > Len(heap)
                 /\ heap'[table_with_audit_ref'].columns > Len(heap)]_vars

C18_Witness ==
    /\ pc = "calls_generated"
    /\ db_type = "oracle"
    /\ Len(heap[heap[table_info_ref].columns]) = 2
    /\ Len(heap[heap[table_with_audit_ref].columns]) = 3
    /\ heap[heap[heap[table_info_ref].columns][1]].data_type = "NUMBER"
    /\ heap[heap[heap[table_with_audit_ref].columns][1]].data_type = "INT"
    /\ load_table(heap, table_info_ref) = current_table_info
    /\ load_table(heap, table_with_audit_ref)
           = add_audit_columns(translate_oracle_to_sqlserver(
                                   current_table_info))

(***************************************************************************)
(* Totality of _translate_column and the rendered lengths, checked under   *)
(* SpecColumn.                                                             *)
(***************************************************************************)

\* C19: _translate_column is total: for every source type name in any
\* letter case, mapped or unmapped, and every combination of present or
\* absent max_length, precision and scale, it raises nothing and returns a
\* column descriptor, which carries the column's name, a target type and
\* present or absent length, precision and scale.
C19_TranslateColumnTotal ==
    /\ pc # "column_raised"
    /\ ColumnDone
           => /\ translated_col # None
              /\ Out.column_name = col.column_name
              /\ Len(Out.data_type) > 0
              /\ \A field \in {Out.max_length, Out.precision, Out.scale} :
                     field = None \/ (Len(field) = 1 /\ Val(field) \in Int)

C19_Witness ==
    /\ ColumnDone
    /\ col.data_type = "number"
    /\ col.precision = None
    /\ col.scale = Some(0)
    /\ col.max_length = None
    /\ Out.data_type = "BIGINT"
    /\ Out.max_length = None

ColumnFormatted == pc = "column_formatted"

\* The largest length rendered as a number, as the claim gives it.
RenderedLimit(data_type) == IF data_type = "VARBINARY" THEN 8000 ELSE 4000

\* The type of a rendered column definition: what follows "[name] " up to
\* the next space or the end.
RenderedType ==
    LET text == Val(column_definition)
        from == Len(col.column_name) + 4
        stops == {k \in from..Len(text) : CharAt(text, k) = " "}
        to == IF stops = {} THEN Len(text)
              ELSE (CHOOSE k \in stops : \A j \in stops : k <= j) - 1
    IN  SubSeq(text, from, to)

\* C20: in a rendered column definition an NVARCHAR or NCHAR column with a
\* length L renders as TYPE(L) when L <= 4000 and TYPE(MAX) otherwise, a
\* VARBINARY column with a length L as VARBINARY(L) when L <= 8000 and
\* VARBINARY(MAX) otherwise, and any of the three with no length as
\* TYPE(255).  Lengths are taken from 1 up.
C20_RenderedLength ==
    (/\ ColumnFormatted
     /\ col.data_type \in {"NVARCHAR", "NCHAR", "VARBINARY"}
     /\ col.max_length # None => Val(col.max_length) >= 1)
    => RenderedType =
           IF col.max_length = None THEN col.data_type \o "(255)"
           ELSE IF Val(col.max_length) <= RenderedLimit(col.data_type)
           THEN col.data_type \o "(" \o ToString(Val(col.max_length)) \o ")"
           ELSE col.data_type \o "(MAX)"

(***************************************************************************)
(* Properties of the rendered column definition, checked under SpecFormat. *)
(***************************************************************************)

\* Whether text ends with tail.
EndsWith(text, tail) ==
    /\ Len(text) >= Len(tail)
    /\ SubSeq(text, Len(text) - Len(tail) + 1, Len(text)) = tail

\* C21: in a rendered column definition a column with a default expression
\* gets the named form CONSTRAINT [DF_<column>] DEFAULT (<expr>) if and only
\* if it is the audit column, and the bare form DEFAULT <expr> if it is any
\* other column; a column with no default expression (None or the empty
\* text) gets no DEFAULT text; NOT NULL appears if and only if the column is
\* not nullable.
C21_DefaultAndNullable ==
    ColumnFormatted
    => LET text == Val(column_definition)
           audit == col.column_name = "record_insert_datetime"
           expr == IF col.default_value = None THEN ""
                   ELSE Val(col.default_value)
           named == "CONSTRAINT [DF_" \o col.column_name \o "] DEFAULT ("
                        \o expr \o ")"
       IN  /\ Contains(text, " NOT NULL") <=> ~col.nullable
           /\ expr = "" => ~Contains(text, "DEFAULT")
           /\ expr # "" =>
                  /\ EndsWith(text, " " \o named) <=> audit
                  /\ ~audit => /\ EndsWith(text, " DEFAULT " \o expr)
                               /\ ~Contains(text, "CONSTRAINT")

C21_Witness ==
    /\ ColumnFormatted
    /\ col.column_name = "record_insert_datetime"
    /\ col.data_type = "DATETIME2"
    /\ column_definition =
           Some("[record_insert_datetime] DATETIME2 NOT NULL "
                    \o "CONSTRAINT [DF_record_insert_datetime] "
                    \o "DEFAULT (GETDATE())")

\* C22: a DECIMAL column with a precision renders as
\* DECIMAL(precision,scale) whenever its scale is present, scale 0
\* included, and as DECIMAL(precision) only when its scale is absent.
C22_DecimalScale ==
    (/\ ColumnFormatted
     /\ col.data_type = "DECIMAL"
     /\ TruthyInt(col.precision))
    => RenderedType =
           IF col.scale # None
           THEN "DECIMAL(" \o ToString(Val(col.precision)) \o ","
                    \o ToString(Val(col.scale)) \o ")"
           ELSE "DECIMAL(" \o ToString(Val(col.precision)) \o ")"

(***************************************************************************)
(* Properties of the storage estimate, checked under SpecStorage.          *)
(***************************************************************************)
StorageShown == pc = "storage_shown"

Impact == Val(storage_impact)

\* The bytes the claim gives for one column.  Left to the code where the
\* claim names no figure: an NCHAR column with no length.
ClaimedColumnBytes(c) ==
    IF c.data_type = "NVARCHAR"
    THEN IF c.max_length # None THEN 2 * Val(c.max_length) ELSE 510
    ELSE IF c.data_type = "NVARCHAR(MAX)" THEN 510
    ELSE IF c.data_type = "NCHAR"
    THEN IF c.max_length # None THEN 2 * Val(c.max_length)
         ELSE column_row_size(c)
    ELSE IF c.data_type \in {"INT", "BIGINT"} THEN 8
    ELSE IF c.data_type = "DECIMAL" THEN 9
    ELSE IF c.data_type = "DATETIME2" THEN 8
    ELSE 8

RECURSIVE ClaimedBytes(_)
ClaimedBytes(columns) ==
    IF Len(columns) = 0 THEN 0
    ELSE ClaimedColumnBytes(Head(columns)) + ClaimedBytes(Tail(columns))

\* C23: estimated_row_size_bytes is 24 plus, over all columns, 2 x length
\* for an NVARCHAR column with a known length, 510 for an NVARCHAR column
\* that is unbounded (MAX) or has no known length, 2 x length for an NCHAR
\* column, 8 for INT or BIGINT, 9 for DECIMAL, 8 for DATETIME2 and 8 for
\* every other type.  Tables with a binary column, whose length the code
\* doubles, are left aside.
C23_RowSize ==
    (/\ StorageShown
     /\ \A i \in 1..Len(translated_table.columns) :
            translated_table.columns[i].data_type # "VARBINARY")
    => Impact.estimated_row_size_bytes
           = 24 + ClaimedBytes(translated_table.columns)

\* The place of a note in the fixed order of the notes.
NoteRank(note) ==
    IF note = large_object_note THEN 1
    ELSE IF note = no_primary_key_note THEN 2
    ELSE IF note = many_columns_note THEN 3
    ELSE 0

\* How many variable-length character columns (NVARCHAR with or without a
\* length) the table handed to estimate_storage_impact has.
VariableLengthCharacterColumns ==
    Cardinality({i \in 1..Len(translated_table.columns) :
                     translated_table.columns[i].data_type = "NVARCHAR"})

\* C24: the notes of estimate_storage_impact contain the large-object note
\* if and only if some column has an unbounded (MAX) type, the
\* no-primary-key note if and only if primary_keys is empty, and the
\* many-variable-length-columns note if and only if the table has more than
\* 10, not exactly 10, variable-length character (NVARCHAR) columns; the
\* notes appear in that order and each at most once.
C24_PerformanceNotes ==
    StorageShown
    => LET notes == Impact.performance_notes
           columns == translated_table.columns
           Has(note) == \E i \in 1..Len(notes) : notes[i] = note
       IN  /\ Has(large_object_note)
                  <=> \E i \in 1..Len(columns) :
                          EndsWith(columns[i].data_type, "(MAX)")
           /\ Has(no_primary_key_note) <=> translated_table.primary_keys = << >>
           /\ Has(many_columns_note) <=> VariableLengthCharacterColumns > 10
           /\ \A i \in 1..Len(notes) : NoteRank(notes[i]) > 0
           /\ \A i, j \in 1..Len(notes) :
                  i < j => NoteRank(notes[i]) < NoteRank(notes[j])

C24_Witness ==
    /\ StorageShown
    /\ Len(translated_table.columns) = 11
    /\ VariableLengthCharacterColumns = 10
    /\ translated_table.primary_keys = << >>
    /\ translated_table.columns[11].data_type = "NVARCHAR(MAX)"
    /\ Impact.performance_notes = << large_object_note, no_primary_key_note >>

(***************************************************************************)
(* The table handed to generate_ddl, checked under Spec.                   *)
(***************************************************************************)

\* C25: every table handed to generate_ddl by generate_ddl_preview holds
\* exactly one column named record_insert_datetime, and that column is the
\* last one, whatever the source table, one that already has a column of
\* that name included.
C25_OneAuditColumnLast ==
    Previewed
    => LET columns == table_with_audit.columns
       IN  /\ Cardinality({i \in 1..Len(columns) :
                  columns[i].column_name = "record_insert_datetime"}) = 1
           /\ columns[Len(columns)].column_name = "record_insert_datetime"

(***************************************************************************)
(* Translating a translated column, checked under SpecColumn.              *)
(***************************************************************************)

\* C26: translation is idempotent: translating a column that is already
\* the result of a translation returns a column equal to it in data_type,
\* max_length, precision and scale.
C26_TranslationIdempotent ==
    [][pc = "column_done"
           => /\ pc' = "column_retranslated"
              /\ Val(translated_col').data_type = Out.data_type
              /\ Val(translated_col').max_length = Out.max_length
              /\ Val(translated_col').precision = Out.precision
              /\ Val(translated_col').scale = Out.scale]_vars

(***************************************************************************)
(* Validation of a produced name, checked under SpecNaming.                *)
(***************************************************************************)

\* C27: every name apply_naming_conventions returns for a prefix that is
\* empty or starts with a letter or underscore, of at most 128 characters in
\* all, is accepted by validate_naming_convention; a produced name always
\* holds an underscore and so is no reserved word, even when the table name
\* or the prefix alone is one.
C27_ProducedNameAccepted ==
    pc = "named_validated"
    => LET prefix == naming_input.source_prefix
           name == Val(naming_result)
       IN  /\ Contains(name, "_")
           /\ ~ReservedIgnoringCase(name)
           /\ (/\ prefix = "" \/ CharAt(prefix, 1) \in CharsOf(LowerLetters)
                                     \cup CharsOf(UpperLetters) \cup {"_"}
               /\ Len(name) <= 128)
                  => Val(validation_result)[1] = TRUE

C27_Witness ==
    /\ pc = "named_validated"
    /\ naming_input.table_name = "TABLE"
    /\ naming_input.source_prefix = ""
    /\ naming_result = Some("_table")
    /\ validation_result = Some(<< TRUE, "Valid table name" >>)

(***************************************************************************)
(* Properties of the project file, checked under SpecProject.              *)
(***************************************************************************)

\* The Build elements of a project file, in document order.
RECURSIVE BuildElements(_)
BuildElements(tree) ==
    IF Len(tree) = 0 THEN << >>
    ELSE SelectSeq(Head(tree).items, LAMBDA e : e.tag = "Build")
             \o BuildElements(Tail(tree))

\* The path between the quotes of a Build entry.
EntryPath(entry) ==
    LET text == strip(entry)
    IN  SubSeq(text, Len("<Build Include=\"") + 1, Len(text) - Len("\" />"))

\* C30: updating an existing project file adds, for each Build entry whose
\* path is not there yet, an element whose Include attribute is exactly the
\* entry's path, and is idempotent: a second call with the same entries
\* leaves the same Build elements as the first.
C30_UpdateIdempotent ==
    [][(sqlproj_file # None /\ update_result' # update_result)
           => LET before == BuildElements(Val(sqlproj_file))
                  after == BuildElements(Val(sqlproj_file'))
              IN  /\ \A i \in 1..Len(sqlproj_entries) :
                         is_build_entry(strip(sqlproj_entries[i]))
                             => \E k \in 1..Len(after) :
                                    after[k].Include
                                        = EntryPath(sqlproj_entries[i])
                  /\ Len(update_result) >= 1 => after = before]_vars

(***************************************************************************)
(* Properties of execute_migration, checked under SpecMigration.           *)
(***************************************************************************)
StepOrder ==
    << "create_branch", "create_directories", "write_files", "update_project",
       "commit" >>

\* The paths of all the DDL files of the migration.
AllPaths ==
    Range(written_paths(ddl_output.files_to_create,
                        migration_config.target_database_name,
                        Len(ddl_output.files_to_create)))

\* C28: execute_migration runs its steps in the order create branch,
\* create directories, write files, update project file, commit; a step
\* runs only if every earlier step reported success, so a commit is made
\* only after all DDL files were written and the project file was updated,
\* and the first step that reports failure ends the migration with no later
\* step attempted.
C28_StepsInOrder ==
    /\ [](/\ Len(step_results) <= Len(StepOrder)
          /\ \A i \in 1..Len(step_results) :
                 /\ step_results[i].step = StepOrder[i]
                 /\ i < Len(step_results)
                        => step_results[i].outcome = "success"
          /\ (/\ Len(step_results) > 0
              /\ step_results[Len(step_results)].outcome # "success")
                 => pc \in {"migration_ended", "migrate_except",
                            "migration_failed"})
    /\ [][(committed_files = None /\ committed_files' # None)
              => /\ AllPaths \subseteq repo_files
                 /\ Range(Val(created_files)) = AllPaths
                 /\ sqlproj_file # None
                 /\ Len(step_results) = 4]_vars

C28_Witness ==
    /\ pc = "migrated"
    /\ Len(step_results) = 5
    /\ \A i \in 1..5 : step_results[i].outcome = "success"
    /\ Len(Val(committed_files)) = 3
    /\ AllPaths \subseteq repo_files

\* C29: rollback_changes is invoked only when an exception is raised after
\* write_files has returned; when a step reports failure through its return
\* value (write_files after writing some of the files, the project-file
\* update or the commit included) the migration ends without any rollback,
\* and the files already written and the created branch remain in place.
C29_RollbackOnlyOnException ==
    /\ rolled_back # None
           => /\ pc = "migration_failed"
              /\ created_files # None
              /\ Len(step_results) >= 3
              /\ step_results[3].outcome # "raised_before"
    /\ pc = "migration_ended"
           => /\ rolled_back = None
              /\ step_results[Len(step_results)].outcome = "failure"
              /\ Len(step_results) > 1 => branch_created
              /\ created_files # None => repo_files = Range(Val(created_files))

C29_Witness ==
    /\ pc = "migration_ended"
    /\ Len(step_results) = 3
    /\ step_results[3].outcome = "failure"
    /\ Len(ddl_output.files_to_create) = 2
    /\ Cardinality(repo_files) = 1
    /\ branch_created
    /\ rolled_back = None

====
